---- MODULE Spec2Model ----
(***************************************************************************)
(* A model of giu_pong_game.py: Ball, Paddle, PongAI, the three menu       *)
(* screens and PongGame (handle_input, update, reset_game, run).           *)
(*                                                                         *)
(* Numbers.  The program computes positions and speeds in Python floats.   *)
(* The model computes them as exact rationals with the common denominator  *)
(* Scale: a length of p pixels is the integer p * Scale.  Scale is chosen  *)
(* so that every ball speed 5 * 1.2^k below the cap (k = 0..6) and the     *)
(* opponent's undo step (1 - 0.7) * 7 = 2.1 are whole numbers.  Binary     *)
(* rounding of the floats is not modelled.                                 *)
(*                                                                         *)
(* Specifications.                                                         *)
(*   Spec        the whole program from PongGame.__init__ on, with an      *)
(*               opponent whose random draws are error-free but for one    *)
(*               target of the first rally;                                *)
(*   SpecBiased  the same with an opponent that keeps drawing the largest  *)
(*               error (the left player can then win in single mode);      *)
(*   SpecBall    the ball as PongGame.update drives it, with paddles that  *)
(*               meet it or not at will (rallies long enough to reach the  *)
(*               speed cap);                                               *)
(*   SpecAI      PongAI.update against a ball taken from a sample set;     *)
(*   SpecScore   a two-player match in which no key is held: every serve   *)
(*               passes the paddles, and every final score comes about.    *)
(***************************************************************************)
EXTENDS Integers, FiniteSets, Sequences, TLC

\* ------------------------------------------------------------ GameConfig
Scale == 2 * 5 * 5 * 5 * 5 * 5

WINDOW_WIDTH == 800
WINDOW_HEIGHT == 600
PADDLE_WIDTH == 15
PADDLE_HEIGHT == 90
BALL_SIZE == 15
PADDLE_SPEED == 7
BALL_SPEED == 5
BALL_MAX_SPEED == 15
\* SPEED_INCREMENT = 0.2, as the fraction SPEED_INCREMENT_NUM / SPEED_INCREMENT_DEN
SPEED_INCREMENT_NUM == 1
SPEED_INCREMENT_DEN == 5
\* the score that ends a match
WIN_SCORE == 11
\* Paddle.reset: the distance of a paddle from its wall
PADDLE_MARGIN == 50
\* PongAI.__init__
REACTION_DELAY == 4
\* difficulty = 0.5, as DIFFICULTY_NUM / DIFFICULTY_DEN
DIFFICULTY_NUM == 1
DIFFICULTY_DEN == 2
\* movement_speed_factor = 0.7, as MOVE_FACTOR_NUM / MOVE_FACTOR_DEN
MOVE_FACTOR_NUM == 7
MOVE_FACTOR_DEN == 10
\* every menu has three options
N_OPTIONS == 3

Px(p) == p * Scale

\* ---------------------------------------------------------------- bounds
\* points played in one run of the process, over all matches, when no key is
\* ever held and the opponent's random draws are all the same
MaxPoints == 12
\* points played in one run in which a key is held or a draw differs from the
\* others
MaxBusyPoints == 1
\* the values of random.uniform(-max_error, max_error) tried are the
\* multiples of max_error / ErrorSteps
ErrorSteps == 2
\* paddle hits in one rally of the ball played on its own
MaxRally == 7
\* events pygame.event.get() returns in one call
MaxBatch == 2

Abs(v) == IF v < 0 THEN -v ELSE v
Min(a, b) == IF a <= b THEN a ELSE b
Max(a, b) == IF a >= b THEN a ELSE b
Sign(v) == IF v < 0 THEN -1 ELSE IF v > 0 THEN 1 ELSE 0

RECURSIVE Gcd(_, _)
Gcd(a, b) == IF b = 0 THEN a ELSE Gcd(b, a % b)

\* floor(a * b / c) for a, b >= 0 and c > 0, computed without forming a * b
\* (which does not fit the checker's integers): a / c is reduced first.
MulDiv(a, b, c) ==
    LET g == Gcd(a, c)
        an == a \div g
        cn == c \div g
    IN  an * (b \div cn) + (an * (b % cn)) \div cn

\* ------------------------------------------------------------------ Ball
\* The four outcomes of the two random.choice([-1, 1]) calls of Ball.reset.
Signs == {-1, 1}

\* A faulty reset: one random.choice is used for both components.
Ball_reset_one_draw(sgx, sgy) ==
    [x |-> Px(WINDOW_WIDTH \div 2),
     y |-> Px(WINDOW_HEIGHT \div 2),
     speed_x |-> Px(BALL_SPEED) * sgx,
     speed_y |-> Px(BALL_SPEED) * sgx]

Ball_reset(sgx, sgy) ==
    [x |-> Px(WINDOW_WIDTH \div 2),
     y |-> Px(WINDOW_HEIGHT \div 2),
     speed_x |-> Px(BALL_SPEED) * sgx,
     speed_y |-> Px(BALL_SPEED) * sgy]

\* A faulty move: the ball turns only once it is past a wall, not on it.
Ball_move_strict(b) ==
    LET nx == b.x + b.speed_x
        ny == b.y + b.speed_y
    IN  [x |-> nx,
         y |-> ny,
         speed_x |-> b.speed_x,
         speed_y |-> IF ny < 0 \/ ny > Px(WINDOW_HEIGHT - BALL_SIZE)
                     THEN -b.speed_y ELSE b.speed_y]

Ball_move(b) ==
    LET nx == b.x + b.speed_x
        ny == b.y + b.speed_y
    IN  [x |-> nx,
         y |-> ny,
         speed_x |-> b.speed_x,
         speed_y |-> IF ny <= 0 \/ ny >= Px(WINDOW_HEIGHT - BALL_SIZE)
                     THEN -b.speed_y ELSE b.speed_y]

\* v * (1 + SPEED_INCREMENT), rounded toward zero when it is no whole number
\* of units (it always is one when the result is within the cap, for the
\* speeds a reset ball can have).
SpeedUp(v) ==
    Sign(v) * ((Abs(v) * (SPEED_INCREMENT_DEN + SPEED_INCREMENT_NUM))
               \div SPEED_INCREMENT_DEN)

\* abs(v * (1 + SPEED_INCREMENT)) <= BALL_MAX_SPEED, decided exactly
WithinCap(v) ==
    Abs(v) * (SPEED_INCREMENT_DEN + SPEED_INCREMENT_NUM)
        <= Px(BALL_MAX_SPEED) * SPEED_INCREMENT_DEN

\* A faulty increase_speed: only the horizontal speed is raised.
Ball_increase_speed_x_only(b) ==
    [b EXCEPT !.speed_x = IF WithinCap(b.speed_x) THEN SpeedUp(b.speed_x)
                          ELSE b.speed_x]

\* A faulty increase_speed: the two cap tests are missing.
Ball_increase_speed_uncapped(b) ==
    [b EXCEPT !.speed_x = SpeedUp(b.speed_x), !.speed_y = SpeedUp(b.speed_y)]

Ball_increase_speed(b) ==
    [b EXCEPT !.speed_x = IF WithinCap(b.speed_x) THEN SpeedUp(b.speed_x)
                          ELSE b.speed_x,
              !.speed_y = IF WithinCap(b.speed_y) THEN SpeedUp(b.speed_y)
                          ELSE b.speed_y]

\* The speed increase_speed leaves alone: v sped up until the cap stops it,
\* and the number of increases that takes.
RECURSIVE Fastest(_)
Fastest(v) == IF WithinCap(v) THEN Fastest(SpeedUp(v)) ELSE v

RECURSIVE IncreasesLeft(_)
IncreasesLeft(v) == IF WithinCap(v) THEN 1 + IncreasesLeft(SpeedUp(v)) ELSE 0

TopSpeed == Fastest(Px(BALL_SPEED))

\* ---------------------------------------------------------------- Paddle
PaddleStartY == Px((WINDOW_HEIGHT - PADDLE_HEIGHT) \div 2)
PaddleMaxY == Px(WINDOW_HEIGHT - PADDLE_HEIGHT)

\* A faulty reset: the right paddle's own width is not taken off its x.
Paddle_reset_no_width(is_left) ==
    [is_left |-> is_left,
     x |-> IF is_left THEN Px(PADDLE_MARGIN) ELSE Px(WINDOW_WIDTH - PADDLE_MARGIN),
     y |-> PaddleStartY]

Paddle_reset(is_left) ==
    [is_left |-> is_left,
     x |-> IF is_left THEN Px(PADDLE_MARGIN)
           ELSE Px(WINDOW_WIDTH - PADDLE_MARGIN - PADDLE_WIDTH),
     y |-> PaddleStartY]

\* A faulty move: max(0, ...) and min(..., ...) are missing.
Paddle_move_unclamped(p, direction) ==
    IF direction = "UP" THEN [p EXCEPT !.y = p.y - Px(PADDLE_SPEED)]
    ELSE IF direction = "DOWN" THEN [p EXCEPT !.y = p.y + Px(PADDLE_SPEED)]
    ELSE p

Paddle_move(p, direction) ==
    IF direction = "UP"
    THEN [p EXCEPT !.y = Max(0, p.y - Px(PADDLE_SPEED))]
    ELSE IF direction = "DOWN"
    THEN [p EXCEPT !.y = Min(PaddleMaxY, p.y + Px(PADDLE_SPEED))]
    ELSE p

Paddle_check_collision(p, b) ==
    /\ p.x < b.x + Px(BALL_SIZE)
    /\ p.x + Px(PADDLE_WIDTH) > b.x
    /\ p.y < b.y + Px(BALL_SIZE)
    /\ p.y + Px(PADDLE_HEIGHT) > b.y

\* ---------------------------------------------------------------- PongAI
PongAI_init == [frame_counter |-> 0, target_y |-> 0]

\* A faulty fold: one pass of the two reflections, an if where the code has
\* a while.
Fold_once(fy) ==
    IF fy < 0 \/ fy > Px(WINDOW_HEIGHT)
    THEN LET a == IF fy < 0 THEN -fy ELSE fy
         IN  IF a > Px(WINDOW_HEIGHT) THEN 2 * Px(WINDOW_HEIGHT) - a ELSE a
    ELSE fy

\* The while loop of predict_ball_position: mirror future_y into
\* [0, WINDOW_HEIGHT].  One call is one pass of the loop body.
RECURSIVE Fold(_)
Fold(fy) ==
    IF fy < 0 \/ fy > Px(WINDOW_HEIGHT)
    THEN LET a == IF fy < 0 THEN -fy ELSE fy
             c == IF a > Px(WINDOW_HEIGHT) THEN 2 * Px(WINDOW_HEIGHT) - a ELSE a
         IN  Fold(c)
    ELSE fy

\* ball.speed_y * abs((paddle.x - ball.x) / ball.speed_x), to the unit below
TravelY(b, p) ==
    Sign(b.speed_y) * MulDiv(Abs(b.speed_y), Abs(p.x - b.x), Abs(b.speed_x))

\* PADDLE_HEIGHT * (1.5 - difficulty)
MaxError ==
    (Px(PADDLE_HEIGHT) * (3 * DIFFICULTY_DEN - 2 * DIFFICULTY_NUM))
        \div (2 * DIFFICULTY_DEN)

\* The values of random.uniform(-max_error, max_error) the model tries.
AIErrors == {(k * MaxError) \div ErrorSteps : k \in (-ErrorSteps)..ErrorSteps}

\* What the two random calls of predict_ball_position may give: the error
\* drawn, and whether random.random() > difficulty held.  (Doubling the error
\* 0 changes nothing: that pair is left out.)
AIDraws == {d \in [error : AIErrors, doubled : BOOLEAN] : d.error = 0 => ~d.doubled}

\* Two draws: no error, and the largest one.
NoError == [error |-> 0, doubled |-> FALSE]
LargestError == [error |-> MaxError, doubled |-> TRUE]

\* A faulty prediction: the final min(max(..., 0), ...) is missing.
PongAI_predict_unclamped(b, p, error, doubled) ==
    IF (p.is_left /\ b.speed_x > 0) \/ (~p.is_left /\ b.speed_x < 0)
    THEN Px(WINDOW_HEIGHT) \div 2 - Px(PADDLE_HEIGHT) \div 2
    ELSE LET future_y == Fold(b.y + TravelY(b, p))
             err == IF doubled THEN 2 * error ELSE error
         IN  future_y - Px(PADDLE_HEIGHT) \div 2 + err

\* error is the value random.uniform drew, doubled says whether
\* random.random() > difficulty held.
PongAI_predict_ball_position(b, p, error, doubled) ==
    IF (p.is_left /\ b.speed_x > 0) \/ (~p.is_left /\ b.speed_x < 0)
    THEN Px(WINDOW_HEIGHT) \div 2 - Px(PADDLE_HEIGHT) \div 2
    ELSE LET future_y == Fold(b.y + TravelY(b, p))
             err == IF doubled THEN 2 * error ELSE error
         IN  Min(Max(future_y - Px(PADDLE_HEIGHT) \div 2 + err, 0), PaddleMaxY)

\* (1 - movement_speed_factor) * PADDLE_SPEED
UndoStep == (Px(PADDLE_SPEED) * (MOVE_FACTOR_DEN - MOVE_FACTOR_NUM)) \div MOVE_FACTOR_DEN

\* A faulty steering: the paddle moves by Paddle.move alone, at the full
\* PADDLE_SPEED.
PongAI_steer_full_speed(p, target_y) ==
    IF Abs(p.y - target_y) > Px(PADDLE_SPEED)
    THEN IF p.y < target_y
         THEN Paddle_move(p, "DOWN")
         ELSE IF p.y > target_y
         THEN Paddle_move(p, "UP")
         ELSE p
    ELSE p

\* The steering half of PongAI.update: the paddle after one call, given the
\* target in force.
PongAI_steer(p, target_y) ==
    IF Abs(p.y - target_y) > Px(PADDLE_SPEED)
    THEN IF p.y < target_y
         THEN LET q == Paddle_move(p, "DOWN") IN [q EXCEPT !.y = q.y - UndoStep]
         ELSE IF p.y > target_y
         THEN LET q == Paddle_move(p, "UP") IN [q EXCEPT !.y = q.y + UndoStep]
         ELSE p
    ELSE p

\* A faulty count: the target is recomputed when the counter has passed
\* reaction_delay.
PongAI_retarget_late(a, p, b, error, doubled) ==
    IF a.frame_counter + 1 > REACTION_DELAY
    THEN [frame_counter |-> 0,
          target_y |-> PongAI_predict_ball_position(b, p, error, doubled)]
    ELSE [a EXCEPT !.frame_counter = a.frame_counter + 1]

\* The counting half of PongAI.update: the opponent after one call.
PongAI_retarget(a, p, b, error, doubled) ==
    IF a.frame_counter + 1 >= REACTION_DELAY
    THEN [frame_counter |-> 0,
          target_y |-> PongAI_predict_ball_position(b, p, error, doubled)]
    ELSE [a EXCEPT !.frame_counter = a.frame_counter + 1]

\* PongAI.update(paddle, ball): the opponent and the paddle after the call.
PongAI_update(a, p, b, error, doubled) ==
    LET na == PongAI_retarget(a, p, b, error, doubled)
    IN  [ai |-> na, paddle |-> PongAI_steer(p, na.target_y)]

\* ----------------------------------------------------------- the menus
\* The events the handlers tell apart (a KEYDOWN is named by its key), and
\* the lists of them one call of pygame.event.get() may return.
EventKinds == {"QUIT", "K_UP", "K_DOWN", "K_RETURN", "K_ESCAPE"}
Batches == UNION {[1..n -> EventKinds] : n \in 0..MaxBatch}

\* The for loop the three menus share: selected_index and the value
\* returned (-1 when the loop runs out) after the events of batch, with
\* escape the value the menu returns on K_ESCAPE.  An event behind the one
\* that makes the loop return is never looked at.
RECURSIVE Menu_scan(_, _, _)
Menu_scan(index, batch, escape) ==
    IF batch = <<>> THEN [selected_index |-> index, selection |-> -1]
    ELSE IF Head(batch) = "QUIT" THEN [selected_index |-> index, selection |-> 2]
    ELSE IF Head(batch) = "K_UP"
    THEN Menu_scan((index - 1) % N_OPTIONS, Tail(batch), escape)
    ELSE IF Head(batch) = "K_DOWN"
    THEN Menu_scan((index + 1) % N_OPTIONS, Tail(batch), escape)
    ELSE IF Head(batch) = "K_RETURN"
    THEN [selected_index |-> index, selection |-> index]
    ELSE [selected_index |-> index, selection |-> escape]

\* what each menu returns on K_ESCAPE: quit, return to the game, main menu
MenuEscape == 2
PauseMenuEscape == 0
GameOverEscape == 1

Menu_handle_input(index, batch) == Menu_scan(index, batch, MenuEscape)
PauseMenu_handle_input(index, batch) == Menu_scan(index, batch, PauseMenuEscape)
GameOver_handle_input(index, batch) == Menu_scan(index, batch, GameOverEscape)

\* -------------------------------------------------------------- PongGame
VARIABLES
    screen,                  \* PongGame.run: the loop in control
    pc,                      \* in the game loop: "input" before handle_input,
                             \* "update" between the pause menu and update
    sel,                     \* selected_index of the menu object on screen
    game_mode,
    ball, left_paddle, right_paddle, ai,
    score_left, score_right,
    single_victories_left, single_victories_right,
    multi_victories_left, multi_victories_right,
    keys,                    \* pygame.key.get_pressed(): the keys held down
    last,                    \* what the last step did (an observation only)
    points,                  \* points scored since the process started
    steady,                  \* the random draws the opponent keeps getting
                             \* in this run
    busy,                    \* in this run a key was held or a draw differed
                             \* from steady
    missed,                  \* in this run a draw differed from steady
    events,                  \* what pygame.event.get() returned in the step
                             \* just taken (empty when it was not called)
    rally,                   \* paddle hits since the last Ball.reset
    served                   \* the last Ball.reset: the signs it drew and the
                             \* paddle hits of the rally it ended

victories == <<single_victories_left, single_victories_right,
               multi_victories_left, multi_victories_right>>
scores == <<score_left, score_right>>
match == <<ball, left_paddle, right_paddle, ai, score_left, score_right>>
env == <<keys, steady, busy, missed>>
serve == <<rally, served>>
vars == <<screen, pc, sel, game_mode, match, victories, env, serve, last, points,
          events>>

\* What is recorded of a Ball.reset that drew sgx, sgy after h paddle hits.
Served(sgx, sgy, h) == [sgx |-> sgx, sgy |-> sgy, after |-> h]

\* PongGame.handle_input, the event loop: what it returns on batch
\* ("continue" stands for going on to poll the keys).
RECURSIVE PongGame_handle_events(_)
PongGame_handle_events(batch) ==
    IF batch = <<>> THEN "continue"
    ELSE IF Head(batch) = "QUIT" THEN "quit"
    ELSE IF Head(batch) = "K_ESCAPE" THEN "pause"
    ELSE PongGame_handle_events(Tail(batch))

\* PongGame.handle_input, the part after the event loop: the paddles after
\* the key state k was polled.
Input_left(p, k) ==
    LET q == IF "UP" \in k THEN Paddle_move(p, "UP") ELSE p
    IN  IF "DOWN" \in k THEN Paddle_move(q, "DOWN") ELSE q

\* A faulty handle_input: W and S move the right paddle in either mode.
Input_right_any_mode(p, mode, k) ==
    LET q == IF "W" \in k THEN Paddle_move(p, "UP") ELSE p
    IN  IF "S" \in k THEN Paddle_move(q, "DOWN") ELSE q

Input_right(p, mode, k) ==
    IF mode = "single" THEN p
    ELSE LET q == IF "W" \in k THEN Paddle_move(p, "UP") ELSE p
         IN  IF "S" \in k THEN Paddle_move(q, "DOWN") ELSE q

\* Two faulty collision branches: one does not reposition the ball, the
\* other does not call increase_speed.
Bounce_in_place(b, x) ==
    Ball_increase_speed([b EXCEPT !.speed_x = -b.speed_x])

Bounce_same_speed(b, x) ==
    [b EXCEPT !.x = x, !.speed_x = -b.speed_x]

\* A faulty bounce: the ball is put at the paddle's face and sped up, and
\* keeps its direction.
Bounce_no_turn(b, x) ==
    Ball_increase_speed([b EXCEPT !.x = x])

\* A faulty bounce: the paddle stops the ball's horizontal motion.
Bounce_stopped(b, x) ==
    Ball_increase_speed([b EXCEPT !.x = x, !.speed_x = 0])

\* The body of either collision branch of PongGame.update: the ball b put
\* at x, turned round and sped up.
Bounce(b, x) ==
    Ball_increase_speed([b EXCEPT !.x = x, !.speed_x = -b.speed_x])

\* PongGame.update up to the scoring check: the ball, the right paddle and
\* the opponent after ball.move, ai.update and the two collision checks.
Update_collide(b, lp, rp, a, mode, error, doubled) ==
    LET b1 == Ball_move(b)
        u == IF mode = "single" THEN PongAI_update(a, rp, b1, error, doubled)
             ELSE [ai |-> a, paddle |-> rp]
        hl == Paddle_check_collision(lp, b1)
        b2 == IF hl THEN Bounce(b1, lp.x + Px(PADDLE_WIDTH)) ELSE b1
        hr == Paddle_check_collision(u.paddle, b2)
        b3 == IF hr THEN Bounce(b2, u.paddle.x - Px(BALL_SIZE)) ELSE b2
    IN  [ball |-> b3, right_paddle |-> u.paddle, ai |-> u.ai,
         hit_left |-> hl, hit_right |-> hr]

\* A faulty scoring check: the point goes to the side whose wall was passed.
Scorer_own_wall(bx) ==
    IF bx <= 0 THEN "left"
    ELSE IF bx >= Px(WINDOW_WIDTH - BALL_SIZE) THEN "right"
    ELSE "none"

\* The scoring check of PongGame.update: who scores with the ball at bx.
Scorer(bx) ==
    IF bx <= 0 THEN "right"
    ELSE IF bx >= Px(WINDOW_WIDTH - BALL_SIZE) THEN "left"
    ELSE "none"

\* What the tick is recorded as in last.
TickEvent(c, scorer, won) ==
    IF won THEN (IF scorer = "left" THEN "win_left" ELSE "win_right")
    ELSE IF scorer = "left" THEN "score_left"
    ELSE IF scorer = "right" THEN "score_right"
    ELSE IF c.hit_left THEN "hit_left"
    ELSE IF c.hit_right THEN "hit_right"
    ELSE "tick"

\* The values of last that record a pass through PongGame.update.
TickLabels ==
    {"tick", "hit_left", "hit_right", "score_left", "score_right",
     "win_left", "win_right"}

\* The ball after the scoring check: left alone on a win, reset on a point.
Update_ball(b, scorer, won, sgx, sgy) ==
    IF scorer # "none" /\ ~won THEN Ball_reset(sgx, sgy) ELSE b

\* A faulty scoring check: the mode is not looked at, every win counts as
\* a two-player win.
Update_victories_one_mode(v, mode, scorer, won) ==
    IF ~won THEN v
    ELSE IF scorer = "right" THEN [v EXCEPT ![4] = v[4] + 1]
    ELSE [v EXCEPT ![3] = v[3] + 1]

\* The four win counters after the scoring check.
Update_victories(v, mode, scorer, won) ==
    IF ~won THEN v
    ELSE IF scorer = "right"
         THEN IF mode = "single" THEN [v EXCEPT ![2] = v[2] + 1]
              ELSE [v EXCEPT ![4] = v[4] + 1]
         ELSE IF mode = "single" THEN [v EXCEPT ![1] = v[1] + 1]
              ELSE [v EXCEPT ![3] = v[3] + 1]

\* A faulty win condition: the match ends only above WIN_SCORE.
Won_late(scorer, nl, nr) ==
    \/ scorer = "left" /\ nl > WIN_SCORE
    \/ scorer = "right" /\ nr > WIN_SCORE

\* The win condition of the scoring check: the side that scored has reached
\* WIN_SCORE (nl, nr: the scores with the point counted).
Won(scorer, nl, nr) ==
    \/ scorer = "left" /\ nl >= WIN_SCORE
    \/ scorer = "right" /\ nr >= WIN_SCORE

\* The label run passes to GameOver.
Winner == IF score_left >= WIN_SCORE THEN "Left Player" ELSE "Right Player"

\* The opponent's update of this tick draws its random numbers: the mode is
\* single, the frame counter reaches reaction_delay and the ball b (already
\* moved) is not moving away from the right paddle.
Draws(b) ==
    /\ game_mode = "single"
    /\ ai.frame_counter + 1 >= REACTION_DELAY
    /\ b.speed_x >= 0

\* The random draws a tick may make.  They are the run's steady ones, but
\* for one target, of the run's first rally, which may be any.
DrawChoices(b) ==
    IF Draws(b)
    THEN IF ~missed /\ points = 0 THEN AIDraws ELSE {steady}
    ELSE {NoError}

\* The points a run may play: fewer once a key was held, an error drawn or
\* a rally paused.
PointsAllowed(isBusy) == IF isBusy THEN MaxBusyPoints ELSE MaxPoints

\* PongGame.update with the paddles lp, rp in force (k: the keys polled in
\* this pass), then the step of run that follows it: the game-over screen
\* when update returned False.
Update(k, lp, rp) ==
    \E drawing \in {Draws(Ball_move(ball))} :
    \E d \in DrawChoices(Ball_move(ball)) :
    \E c \in {Update_collide(ball, lp, rp, ai, game_mode, d.error, d.doubled)} :
        LET scorer == Scorer(c.ball.x)
            nl == IF scorer = "left" THEN score_left + 1 ELSE score_left
            nr == IF scorer = "right" THEN score_right + 1 ELSE score_right
            won == Won(scorer, nl, nr)
            resets == scorer # "none" /\ ~won
            nv == Update_victories(victories, game_mode, scorer, won)
            off == drawing /\ d # steady
        IN  /\ scorer # "none" => points < PointsAllowed(busy \/ off)
            /\ busy' = (busy \/ k # {} \/ off)
            /\ \E sgx \in IF resets THEN Signs ELSE {served.sgx} :
               \E sgy \in IF resets THEN Signs ELSE {served.sgy} :
                   /\ ball' = Update_ball(c.ball, scorer, won, sgx, sgy)
                   /\ served' = IF resets THEN Served(sgx, sgy, rally) ELSE served
            /\ rally' = IF resets THEN 0
                        ELSE IF c.hit_left \/ c.hit_right THEN rally + 1
                        ELSE rally
            /\ left_paddle' = lp
            /\ right_paddle' = c.right_paddle
            /\ ai' = c.ai
            /\ score_left' = nl
            /\ score_right' = nr
            /\ single_victories_left' = nv[1]
            /\ single_victories_right' = nv[2]
            /\ multi_victories_left' = nv[3]
            /\ multi_victories_right' = nv[4]
            /\ missed' = (missed \/ off)
            /\ points' = IF scorer # "none" THEN points + 1 ELSE points
            /\ last' = TickEvent(c, scorer, won)
            /\ screen' = IF won THEN "GameOver" ELSE "Playing"
            /\ sel' = 0
            /\ pc' = "input"

\* PongGame.reset_game
reset_game ==
    \E sgx \in Signs, sgy \in Signs :
        /\ score_left' = 0
        /\ score_right' = 0
        /\ left_paddle' = Paddle_reset(TRUE)
        /\ right_paddle' = Paddle_reset(FALSE)
        /\ ball' = Ball_reset(sgx, sgy)
        /\ served' = Served(sgx, sgy, rally)
        /\ rally' = 0

\* ------------------------------------------------------ the environment
\* The keys handle_input looks at, and the sets of them that can be held.
Keys == {"UP", "DOWN", "W", "S"}
KeyPatterns == SUBSET Keys

\* The ball is where Ball.reset puts it: a rally is about to start.
AtServe == ball.x = Px(WINDOW_WIDTH \div 2) /\ ball.y = Px(WINDOW_HEIGHT \div 2)

\* The key states a tick may poll.  The players choose the keys they hold
\* when the first rally of a run starts, and keep them held; after a rally
\* was paused they hold none.
KeyChoices == IF AtServe /\ points = 0 /\ ~busy THEN KeyPatterns ELSE {keys}

\* Events reach the game loop only in the first rally of a run: when it
\* starts, and right after a paddle was hit with no key held so far.
PlayersAct ==
    /\ points = 0
    /\ AtServe \/ (last \in {"hit_left", "hit_right"} /\ ~busy)
\* Events the game loop ignores arrive only when the first rally starts.
PlayBatches ==
    IF AtServe /\ points = 0 THEN Batches
    ELSE IF PlayersAct
    THEN {batch \in Batches : PongGame_handle_events(batch) # "continue"} \cup {<<>>}
    ELSE {<<>>}

\* ------------------------------------------------------------------ Init
\* The state after PongGame.__init__, with the opponent's steady draws s.
InitWith(s) ==
    /\ screen = "Menu"
    /\ pc = "input"
    /\ sel = 0
    /\ game_mode = "none"
    /\ \E sgx \in Signs, sgy \in Signs :
        /\ ball = Ball_reset(sgx, sgy)
        /\ served = Served(sgx, sgy, 0)
    /\ rally = 0
    /\ left_paddle = Paddle_reset(TRUE)
    /\ right_paddle = Paddle_reset(FALSE)
    /\ ai = PongAI_init
    /\ score_left = 0
    /\ score_right = 0
    /\ single_victories_left = 0
    /\ single_victories_right = 0
    /\ multi_victories_left = 0
    /\ multi_victories_right = 0
    /\ keys = {}
    /\ last = "init"
    /\ points = 0
    /\ steady = s
    /\ busy = FALSE
    /\ missed = FALSE
    /\ events = <<>>

Init == InitWith(NoError)

\* The same with an opponent whose draws are steadily the largest error.
InitBiased == InitWith(LargestError)

\* --------------------------------------------------- Menu (PongGame.run)
\* A pass of a menu loop in which handle_input returns -1: the selection
\* bar may have moved.  escape is what the menu returns on K_ESCAPE.
Navigate(where, escape) ==
    /\ screen = where
    /\ \E batch \in Batches :
       \E r \in {Menu_scan(sel, batch, escape)} :
           /\ r.selection = -1
           /\ sel' = r.selected_index
           /\ events' = batch
    /\ last' = "navigate"
    /\ UNCHANGED <<screen, pc, game_mode, match, victories, env, serve, points>>

MenuNavigate == Navigate("Menu", MenuEscape)

\* selection 0 or 1: K_RETURN on "Single Player" or "Two Players"
MenuStart ==
    /\ screen = "Menu"
    /\ \E batch \in Batches :
       \E r \in {Menu_handle_input(sel, batch)} :
           /\ r.selection \in {0, 1}
           /\ game_mode' = IF r.selection = 0 THEN "single" ELSE "two_players"
           /\ events' = batch
    /\ reset_game
    /\ screen' = "Playing"
    /\ pc' = "input"
    /\ sel' = 0
    /\ last' = "start"
    /\ UNCHANGED <<ai, victories, env, points>>

\* selection 2: pygame.QUIT, K_ESCAPE, or K_RETURN on "Quit"
MenuQuit ==
    /\ screen = "Menu"
    /\ \E batch \in Batches :
        /\ Menu_handle_input(sel, batch).selection = 2
        /\ events' = batch
    /\ screen' = "Exit"
    /\ sel' = 0
    /\ last' = "menu_quit"
    /\ UNCHANGED <<pc, game_mode, match, victories, env, serve, points>>

\* ------------------------------------------------ the game loop of run
\* One pass in which the event loop of handle_input runs out: handle_input
\* polls the keys and moves the paddles, then update.
Tick ==
    /\ screen = "Playing"
    /\ pc = "input"
    /\ \E batch \in PlayBatches :
        /\ PongGame_handle_events(batch) = "continue"
        /\ events' = batch
    /\ \E k \in KeyChoices :
        /\ keys' = k
        /\ Update(k, Input_left(left_paddle, k), Input_right(right_paddle, game_mode, k))
    /\ UNCHANGED <<game_mode, steady>>

\* handle_input returns "quit"
PlayQuit ==
    /\ screen = "Playing"
    /\ pc = "input"
    /\ \E batch \in PlayBatches :
        /\ PongGame_handle_events(batch) = "quit"
        /\ events' = batch
    /\ screen' = "Exit"
    /\ last' = "play_quit"
    /\ UNCHANGED <<pc, sel, game_mode, match, victories, env, serve, points>>

\* A faulty pause: K_ESCAPE leaves the match for the main menu at once.
PlayPause_to_menu ==
    /\ screen = "Playing"
    /\ pc = "input"
    /\ \E batch \in PlayBatches :
        /\ PongGame_handle_events(batch) = "pause"
        /\ events' = batch
    /\ screen' = "Menu"
    /\ sel' = 0
    /\ last' = "pause"
    /\ busy' = (busy \/ ~AtServe)
    /\ UNCHANGED <<pc, game_mode, match, victories, keys, steady, missed, serve,
                   points>>

\* handle_input returns "pause": K_ESCAPE opens the pause menu
PlayPause ==
    /\ screen = "Playing"
    /\ pc = "input"
    /\ \E batch \in PlayBatches :
        /\ PongGame_handle_events(batch) = "pause"
        /\ events' = batch
    /\ screen' = "Paused"
    /\ sel' = 0
    /\ last' = "pause"
    /\ busy' = (busy \/ ~AtServe)
    /\ UNCHANGED <<pc, game_mode, match, victories, keys, steady, missed, serve,
                   points>>

PauseNavigate == Navigate("Paused", PauseMenuEscape)

\* pause_selection 0: K_RETURN on "Return to Game", or K_ESCAPE
PauseResume ==
    /\ screen = "Paused"
    /\ \E batch \in Batches :
        /\ PauseMenu_handle_input(sel, batch).selection = 0
        /\ events' = batch
    /\ screen' = "Playing"
    /\ pc' = "update"
    /\ sel' = 0
    /\ last' = "resume"
    /\ UNCHANGED <<game_mode, match, victories, env, serve, points>>

\* The rest of the pass that opened the pause menu: update, with the paddles
\* as they are (handle_input returned before it polled the keys).
ResumeUpdate ==
    /\ screen = "Playing"
    /\ pc = "update"
    /\ Update({}, left_paddle, right_paddle)
    /\ events' = <<>>
    /\ UNCHANGED <<game_mode, keys, steady>>

\* A faulty way back to the menu: leaving the match counts as a win of the
\* right side.
PauseToMenu_forfeit ==
    /\ screen = "Paused"
    /\ \E batch \in Batches :
        /\ PauseMenu_handle_input(sel, batch).selection = 1
        /\ events' = batch
    /\ screen' = "Menu"
    /\ sel' = 0
    /\ last' = "to_menu"
    /\ \E nv \in {Update_victories(victories, game_mode, "right", TRUE)} :
        /\ single_victories_left' = nv[1]
        /\ single_victories_right' = nv[2]
        /\ multi_victories_left' = nv[3]
        /\ multi_victories_right' = nv[4]
    /\ UNCHANGED <<pc, game_mode, match, env, serve, points>>

\* pause_selection 1: K_RETURN on "Back to Menu"
PauseToMenu ==
    /\ screen = "Paused"
    /\ \E batch \in Batches :
        /\ PauseMenu_handle_input(sel, batch).selection = 1
        /\ events' = batch
    /\ screen' = "Menu"
    /\ sel' = 0
    /\ last' = "to_menu"
    /\ UNCHANGED <<pc, game_mode, match, victories, env, serve, points>>

\* pause_selection 2: pygame.QUIT, or K_RETURN on "Quit"
PauseQuit ==
    /\ screen = "Paused"
    /\ \E batch \in Batches :
        /\ PauseMenu_handle_input(sel, batch).selection = 2
        /\ events' = batch
    /\ screen' = "Exit"
    /\ sel' = 0
    /\ last' = "pause_quit"
    /\ UNCHANGED <<pc, game_mode, match, victories, env, serve, points>>

GameOverNavigate == Navigate("GameOver", GameOverEscape)

\* game_over_selection 0: K_RETURN on "Play Again"
GameOverReplay ==
    /\ screen = "GameOver"
    /\ \E batch \in Batches :
        /\ GameOver_handle_input(sel, batch).selection = 0
        /\ events' = batch
    /\ reset_game
    /\ screen' = "Playing"
    /\ pc' = "input"
    /\ sel' = 0
    /\ last' = "replay"
    /\ UNCHANGED <<game_mode, ai, victories, env, points>>

\* game_over_selection 1: K_RETURN on "Main Menu", or K_ESCAPE
GameOverToMenu ==
    /\ screen = "GameOver"
    /\ \E batch \in Batches :
        /\ GameOver_handle_input(sel, batch).selection = 1
        /\ events' = batch
    /\ screen' = "Menu"
    /\ sel' = 0
    /\ last' = "to_menu"
    /\ UNCHANGED <<pc, game_mode, match, victories, env, serve, points>>

\* game_over_selection 2: pygame.QUIT, or K_RETURN on "Quit"
GameOverQuit ==
    /\ screen = "GameOver"
    /\ \E batch \in Batches :
        /\ GameOver_handle_input(sel, batch).selection = 2
        /\ events' = batch
    /\ screen' = "Exit"
    /\ sel' = 0
    /\ last' = "gameover_quit"
    /\ UNCHANGED <<pc, game_mode, match, victories, env, serve, points>>

Next ==
    \/ MenuNavigate
    \/ MenuStart
    \/ MenuQuit
    \/ Tick
    \/ PlayQuit
    \/ PlayPause
    \/ PauseNavigate
    \/ PauseResume
    \/ ResumeUpdate
    \/ PauseToMenu
    \/ PauseQuit
    \/ GameOverNavigate
    \/ GameOverReplay
    \/ GameOverToMenu
    \/ GameOverQuit

Spec == Init /\ [][Next]_vars

SpecBiased == InitBiased /\ [][Next]_vars

\* ------------------------------------------------- the ball on its own
\* The part of PongGame.update that acts on the ball (move, the two collision
\* checks with increase_speed, the reset after a point), in two-player mode
\* and with no score kept: a rally ends with a reset, never with a win.  The
\* players are not modelled.  When the ball comes alongside a paddle, the
\* paddle is on the ball's line or away from it; later in the same pass of
\* the ball it is away.

\* a paddle height at which p covers the ball b, and one at which it does not
OnBall(p, b) ==
    [p EXCEPT !.y = Min(Max(b.y - Px(PADDLE_HEIGHT - BALL_SIZE) \div 2, 0), PaddleMaxY)]
OffBall(p, b) ==
    [p EXCEPT !.y = IF 2 * b.y >= Px(WINDOW_HEIGHT) THEN 0 ELSE PaddleMaxY]

\* the ball b and the paddle p overlap horizontally
Alongside(p, b) == p.x < b.x + Px(BALL_SIZE) /\ p.x + Px(PADDLE_WIDTH) > b.x

\* the heights tried for p in the tick that moves the ball from b
PaddlePlaces(p, b) ==
    IF Alongside(p, b) THEN {OffBall(p, Ball_move(b))}
    ELSE {OnBall(p, Ball_move(b)), OffBall(p, Ball_move(b))}

InitBall ==
    /\ screen = "Playing"
    /\ pc = "input"
    /\ sel = 0
    /\ game_mode = "two_players"
    /\ \E sgx \in Signs, sgy \in Signs :
        /\ ball = Ball_reset(sgx, sgy)
        /\ served = Served(sgx, sgy, 0)
    /\ rally = 0
    /\ left_paddle = Paddle_reset(TRUE)
    /\ right_paddle = Paddle_reset(FALSE)
    /\ ai = PongAI_init
    /\ score_left = 0
    /\ score_right = 0
    /\ single_victories_left = 0
    /\ single_victories_right = 0
    /\ multi_victories_left = 0
    /\ multi_victories_right = 0
    /\ keys = {}
    /\ last = "init"
    /\ points = 0
    /\ steady = NoError
    /\ busy = FALSE
    /\ missed = FALSE
    /\ events = <<>>

BallStep ==
    /\ \E lp \in PaddlePlaces(left_paddle, ball) :
       \E rp \in PaddlePlaces(right_paddle, ball) :
       \E c \in {Update_collide(ball, lp, rp, ai, game_mode, 0, FALSE)} :
           LET scorer == Scorer(c.ball.x)
               resets == scorer # "none"
               hit == c.hit_left \/ c.hit_right
           IN  /\ hit => rally < MaxRally
               /\ \E sgx \in IF resets THEN Signs ELSE {served.sgx} :
                  \E sgy \in IF resets THEN Signs ELSE {served.sgy} :
                      /\ ball' = Update_ball(c.ball, scorer, FALSE, sgx, sgy)
                      /\ served' = IF resets THEN Served(sgx, sgy, rally)
                                   ELSE served
               /\ rally' = IF resets THEN 0 ELSE IF hit THEN rally + 1 ELSE rally
               /\ last' = TickEvent(c, scorer, FALSE)
    /\ UNCHANGED <<screen, pc, sel, game_mode, left_paddle, right_paddle, ai,
                   scores, victories, env, points, events>>

NextBall == BallStep

SpecBall == InitBall /\ [][NextBall]_vars

\* --------------------------------------------- the opponent on its own
\* PongAI.update called again and again on the right paddle with one ball,
\* which is any of BallSamples and does not move.

\* Ball positions as update can see them after Ball.move (the ball may be
\* past a wall by less than one step), and velocities of the lowest and the
\* highest speed, the two components not necessarily of the same size.
SampleXs == {-Px(10), Px(65), Px(400), Px(790)}
SampleYs == {-Px(10), Px(300), Px(595)}
SampleSpeeds == {-TopSpeed, -Px(BALL_SPEED), Px(BALL_SPEED), TopSpeed}
BallSamples == [x : SampleXs, y : SampleYs, speed_x : SampleSpeeds, speed_y : SampleSpeeds]

InitAI ==
    /\ screen = "Playing"
    /\ pc = "input"
    /\ sel = 0
    /\ game_mode = "single"
    /\ ball \in BallSamples
    /\ served = Served(Sign(ball.speed_x), Sign(ball.speed_y), 0)
    /\ rally = 0
    /\ left_paddle = Paddle_reset(TRUE)
    /\ right_paddle = Paddle_reset(FALSE)
    /\ ai = PongAI_init
    /\ score_left = 0
    /\ score_right = 0
    /\ single_victories_left = 0
    /\ single_victories_right = 0
    /\ multi_victories_left = 0
    /\ multi_victories_right = 0
    /\ keys = {}
    /\ last = "init"
    /\ points = 0
    /\ steady = NoError
    /\ busy = FALSE
    /\ missed = FALSE
    /\ events = <<>>

AIStep ==
    /\ \E d \in IF ai.frame_counter + 1 >= REACTION_DELAY THEN AIDraws ELSE {NoError} :
       \E u \in {PongAI_update(ai, right_paddle, ball, d.error, d.doubled)} :
           /\ ai' = u.ai
           /\ right_paddle' = u.paddle
           /\ last' = IF ai.frame_counter + 1 >= REACTION_DELAY
                      THEN "retarget" ELSE "steer"
    /\ UNCHANGED <<screen, pc, sel, game_mode, ball, left_paddle, scores,
                   victories, env, serve, points, events>>

NextAI == AIStep

SpecAI == InitAI /\ [][NextAI]_vars

\* ------------------------------------------------ the match untouched
\* A two-player match, from its start to the game-over screen, in which
\* nobody holds a key: the paddles stay where Paddle.reset put them and
\* every serve ends in a point.  K_ESCAPE arrives only before a serve, and
\* the pause menu is left by K_RETURN on "Return to Game".
InitScore == InitBall

\* one pass of the game loop through handle_input (no event, no key) and
\* update, or the rest of a pass that the pause menu interrupted
ScoreTick ==
    /\ screen = "Playing"
    /\ \E c \in {Update_collide(ball, left_paddle, right_paddle, ai, game_mode,
                                 NoError.error, NoError.doubled)} :
        LET scorer == Scorer(c.ball.x)
            nl == IF scorer = "left" THEN score_left + 1 ELSE score_left
            nr == IF scorer = "right" THEN score_right + 1 ELSE score_right
            won == Won(scorer, nl, nr)
            resets == scorer # "none" /\ ~won
            nv == Update_victories(victories, game_mode, scorer, won)
        IN  /\ \E sgx \in IF resets THEN Signs ELSE {served.sgx} :
               \E sgy \in IF resets THEN Signs ELSE {served.sgy} :
                   /\ ball' = Update_ball(c.ball, scorer, won, sgx, sgy)
                   /\ served' = IF resets THEN Served(sgx, sgy, rally) ELSE served
            /\ rally' = IF resets THEN 0
                        ELSE IF c.hit_left \/ c.hit_right THEN rally + 1
                        ELSE rally
            /\ right_paddle' = c.right_paddle
            /\ ai' = c.ai
            /\ score_left' = nl
            /\ score_right' = nr
            /\ single_victories_left' = nv[1]
            /\ single_victories_right' = nv[2]
            /\ multi_victories_left' = nv[3]
            /\ multi_victories_right' = nv[4]
            /\ last' = TickEvent(c, scorer, won)
            /\ screen' = IF won THEN "GameOver" ELSE "Playing"
    /\ pc' = "input"
    /\ sel' = 0
    /\ events' = <<>>
    /\ UNCHANGED <<game_mode, left_paddle, env, points>>

\* handle_input returns "pause" before a serve
ScorePause ==
    /\ screen = "Playing"
    /\ pc = "input"
    /\ AtServe
    /\ PongGame_handle_events(<<"K_ESCAPE">>) = "pause"
    /\ events' = <<"K_ESCAPE">>
    /\ screen' = "Paused"
    /\ sel' = 0
    /\ last' = "pause"
    /\ UNCHANGED <<pc, game_mode, match, victories, env, serve, points>>

\* pause_selection 0
ScoreResume ==
    /\ screen = "Paused"
    /\ PauseMenu_handle_input(sel, <<"K_RETURN">>).selection = 0
    /\ events' = <<"K_RETURN">>
    /\ screen' = "Playing"
    /\ pc' = "update"
    /\ sel' = 0
    /\ last' = "resume"
    /\ UNCHANGED <<game_mode, match, victories, env, serve, points>>

NextScore ==
    \/ ScoreTick
    \/ ScorePause
    \/ ScoreResume

SpecScore == InitScore /\ [][NextScore]_vars

\* ------------------------------------------------------------ properties
PaddleInRange(p) == 0 <= p.y /\ p.y <= PaddleMaxY

\* C1: in every reachable state of a match both paddles are within the
\* field: 0 <= y <= WINDOW_HEIGHT - PADDLE_HEIGHT, whatever keys were held
\* and whatever the opponent did.
C1_PaddlesInRange ==
    PaddleInRange(left_paddle) /\ PaddleInRange(right_paddle)

\* UP was held until the left paddle stopped at the top edge, in a match in
\* which the opponent has moved the right paddle.
C1_Witness ==
    /\ screen = "Playing"
    /\ game_mode = "single"
    /\ "UP" \in keys
    /\ left_paddle.y = 0
    /\ right_paddle.y # PaddleStartY

\* C2: both components of the ball's speed stay within BALL_MAX_SPEED,
\* whatever moves, paddle hits and resets the ball has been through.
C2_SpeedWithinCap ==
    /\ Abs(ball.speed_x) <= Px(BALL_MAX_SPEED)
    /\ Abs(ball.speed_y) <= Px(BALL_MAX_SPEED)

\* A paddle hit at which increase_speed left the speed alone: the rally has
\* had more hits than there are increases below the cap.
C2_Witness ==
    /\ last \in {"hit_left", "hit_right"}
    /\ rally > IncreasesLeft(Px(BALL_SPEED))
    /\ Abs(ball.speed_x) = TopSpeed
    /\ Abs(ball.speed_y) = TopSpeed

\* The place in victories of the counter of side's wins in mode.
WinCounter(mode, side) ==
    IF mode = "single" THEN (IF side = "left" THEN 1 ELSE 2)
    ELSE (IF side = "left" THEN 3 ELSE 4)

\* C3: a pass through update that brings a score to 11 ends the match (the
\* game-over screen follows) and adds exactly 1 to the win counter of the
\* scoring side for the mode in force, leaving the other three alone; any
\* other pass through update leaves all four alone and the match goes on.
C3_WinCounters ==
    [][last' \in TickLabels =>
        LET left11 == score_left' # score_left /\ score_left' = WIN_SCORE
            right11 == score_right' # score_right /\ score_right' = WIN_SCORE
            won == WinCounter(game_mode, IF left11 THEN "left" ELSE "right")
        IN  IF left11 \/ right11
            THEN /\ screen' = "GameOver"
                 /\ \A i \in 1..4 :
                        victories'[i] = victories[i] + (IF i = won THEN 1 ELSE 0)
            ELSE /\ screen' = "Playing"
                 /\ victories' = victories]_vars

\* The left player has just won a match against the opponent.
C3_Witness ==
    /\ last = "win_left"
    /\ game_mode = "single"
    /\ score_left = WIN_SCORE
    /\ victories = <<1, 0, 0, 0>>

\* C4: a step from the menu or from the game-over screen into a match
\* leaves both scores 0, both paddles at their start position, the ball at
\* the centre with the base speed and the four win counters as they were;
\* the step from the game-over screen also leaves the mode as it was.
C4_MatchStart ==
    [][(screen \in {"Menu", "GameOver"} /\ screen' = "Playing") =>
        /\ score_left' = 0
        /\ score_right' = 0
        /\ left_paddle'.x = Px(PADDLE_MARGIN)
        /\ right_paddle'.x = Px(WINDOW_WIDTH - PADDLE_MARGIN - PADDLE_WIDTH)
        /\ left_paddle'.y = Px((WINDOW_HEIGHT - PADDLE_HEIGHT) \div 2)
        /\ right_paddle'.y = Px((WINDOW_HEIGHT - PADDLE_HEIGHT) \div 2)
        /\ ball'.x = Px(WINDOW_WIDTH \div 2)
        /\ ball'.y = Px(WINDOW_HEIGHT \div 2)
        /\ Abs(ball'.speed_x) = Px(BALL_SPEED)
        /\ Abs(ball'.speed_y) = Px(BALL_SPEED)
        /\ victories' = victories
        /\ screen = "GameOver" => game_mode' = game_mode]_vars

\* A match against the opponent was lost and "Play Again" has just started
\* the next one: there is a win to keep and a score to reset.
C4_Witness ==
    /\ last = "replay"
    /\ screen = "Playing"
    /\ game_mode = "single"
    /\ single_victories_right = 1
    /\ scores = <<0, 0>>

\* C5: after a pass through update in which the moved ball overlaps the left
\* paddle, the ball's left edge is on the paddle's right edge and speed_x
\* has changed sign; after one in which it overlaps the right paddle, the
\* ball's right edge is on the paddle's left edge and speed_x has changed
\* sign.
C5_CollisionPlacement ==
    [][last' \in TickLabels =>
        LET b1 == Ball_move(ball)
        IN  /\ Paddle_check_collision(left_paddle', b1) =>
                /\ ball'.x = left_paddle'.x + Px(PADDLE_WIDTH)
                /\ ball.speed_x # 0
                /\ Sign(ball'.speed_x) = -Sign(ball.speed_x)
            /\ Paddle_check_collision(right_paddle', b1) =>
                /\ ball'.x + Px(BALL_SIZE) = right_paddle'.x
                /\ ball.speed_x # 0
                /\ Sign(ball'.speed_x) = -Sign(ball.speed_x)]_vars

\* A paddle has just been hit in a rally in which the other one was hit
\* before.
C5_Witness ==
    /\ last \in {"hit_left", "hit_right"}
    /\ rally >= 2

\* The ball served from the centre with speed (+5, +5) has just had its
\* first collision, with the right paddle (which is at x = 735).
FirstRightHit ==
    /\ last = "hit_right"
    /\ rally = 1
    /\ served.sgx = 1
    /\ served.sgy = 1
    /\ right_paddle.x = Px(735)

\* C6: in that scenario the ball is at x = 720 after the collision, its
\* right edge on the paddle's left edge at 735, and speed_x is -6.
C6_RightHitAt720 ==
    FirstRightHit => ball.x = Px(720) /\ ball.speed_x = -Px(6)

\* C6 as it was stated: the ball is at x = 735 and speed_x is -6.
C6_RightHitAt735 ==
    FirstRightHit => ball.x = Px(735) /\ ball.speed_x = -Px(6)

\* That scenario, with the ball left touching the paddle.
C6_Witness ==
    FirstRightHit /\ ball.x + Px(BALL_SIZE) = right_paddle.x

\* C7: the opponent's target is within the paddle's range, 0..510, before
\* the first prediction and after every one, for every ball and every error
\* drawn.
C7_TargetInRange ==
    0 <= ai.target_y /\ ai.target_y <= Px(WINDOW_HEIGHT - PADDLE_HEIGHT)

\* A prediction for an approaching ball has just been cut down to the bottom
\* of the range.
C7_Witness ==
    /\ last = "retarget"
    /\ ball.speed_x > 0
    /\ ai.target_y = PaddleMaxY
    /\ \E d \in AIDraws :
          PongAI_predict_unclamped(ball, right_paddle, d.error, d.doubled) > PaddleMaxY

\* The transitions between screens that are listed, and the one from a
\* match straight to the end of the process.
ListedEdges ==
    {<<"Menu", "Playing">>, <<"Menu", "Exit">>,
     <<"Playing", "Paused">>, <<"Playing", "GameOver">>,
     <<"Paused", "Playing">>, <<"Paused", "Menu">>, <<"Paused", "Exit">>,
     <<"GameOver", "Playing">>, <<"GameOver", "Menu">>, <<"GameOver", "Exit">>}
QuitEdge == <<"Playing", "Exit">>

\* C8: a step of run that changes the screen goes along one of the listed
\* transitions or from Playing to Exit (pygame.QUIT during a match).
C8_EdgesWithQuit ==
    [][screen' # screen => <<screen, screen'>> \in ListedEdges \cup {QuitEdge}]_vars

\* C8 as it was stated: the listed transitions are the only ones.
C8_ListedEdgesOnly ==
    [][screen' # screen => <<screen, screen'>> \in ListedEdges]_vars

\* The process has just ended from within a match.
C8_Witness ==
    screen = "Exit" /\ last = "play_quit"

\* C9: in a pass through update the right side scores exactly when the
\* moved ball is at x <= 0 and the left side exactly when it is at
\* x >= WINDOW_WIDTH - BALL_SIZE, never both.  When the scorer is still
\* below 11 the ball is reset to the centre with the base speed, the
\* paddles are not (they keep their x and are where this pass moved them)
\* and the match goes on; when the scorer reaches 11 the ball stays as it
\* crossed the line.
C9_ScoringTick ==
    [][last' \in TickLabels =>
        LET b1 == Ball_move(ball)
            right == b1.x <= 0
            left == ~right /\ b1.x >= Px(WINDOW_WIDTH - BALL_SIZE)
            total == IF right THEN score_right' ELSE score_left'
        IN  /\ score_right' = score_right + (IF right THEN 1 ELSE 0)
            /\ score_left' = score_left + (IF left THEN 1 ELSE 0)
            /\ (left \/ right) /\ total < WIN_SCORE =>
                /\ ball'.x = Px(WINDOW_WIDTH \div 2)
                /\ ball'.y = Px(WINDOW_HEIGHT \div 2)
                /\ Abs(ball'.speed_x) = Px(BALL_SPEED)
                /\ Abs(ball'.speed_y) = Px(BALL_SPEED)
                /\ left_paddle'.x = left_paddle.x
                /\ right_paddle'.x = right_paddle.x
                /\ Abs(left_paddle'.y - left_paddle.y) <= Px(PADDLE_SPEED)
                /\ Abs(right_paddle'.y - right_paddle.y) <= Px(PADDLE_SPEED)
                /\ screen' = "Playing"
            /\ (left \/ right) /\ total >= WIN_SCORE =>
                ball' = b1]_vars

\* The match has just ended with the ball past the left wall, still moving
\* left, and with the right paddle away from its start position.
C9_Witness ==
    /\ last = "win_right"
    /\ ball.x <= 0
    /\ ball.speed_x < 0
    /\ score_right = WIN_SCORE
    /\ right_paddle.y # PaddleStartY

\* C10: every Ball.reset (at the start of a match and after a point that
\* does not end it) puts the ball at the centre with both speed components
\* of size BALL_SPEED, whatever the ball was doing before; and each of the
\* four sign combinations can come out of it.
C10_Reset ==
    /\ [][(\/ screen \in {"Menu", "GameOver"} /\ screen' = "Playing"
           \/ /\ last' \in TickLabels
              /\ screen' = "Playing"
              /\ scores' # scores) =>
            /\ ball'.x = Px(WINDOW_WIDTH \div 2)
            /\ ball'.y = Px(WINDOW_HEIGHT \div 2)
            /\ Abs(ball'.speed_x) = Px(BALL_SPEED)
            /\ Abs(ball'.speed_y) = Px(BALL_SPEED)]_vars
    /\ [](\A sx \in {-1, 1}, sy \in {-1, 1} :
            /\ (screen = "Menu" /\ sel \in {0, 1}) =>
                  ENABLED (/\ MenuStart
                           /\ ball'.speed_x = sx * Px(BALL_SPEED)
                           /\ ball'.speed_y = sy * Px(BALL_SPEED))
            /\ (screen = "GameOver" /\ sel = 0) =>
                  ENABLED (/\ GameOverReplay
                           /\ ball'.speed_x = sx * Px(BALL_SPEED)
                           /\ ball'.speed_y = sy * Px(BALL_SPEED)))

\* A point has just been scored in a rally in which a paddle was hit: the
\* ball had gained speed and is back at the centre with the base speed.
C10_Witness ==
    /\ last \in {"score_left", "score_right"}
    /\ served.after > 0
    /\ rally = 0
    /\ AtServe

\* C11: a pygame.QUIT among the events a pass receives ends run in that
\* pass: the screen becomes Exit with the scores and the win counters as
\* they were, and nothing happens after Exit.
QuitIn(batch) == \E i \in DOMAIN batch : batch[i] = "QUIT"

C11_QuitEndsRun ==
    [][/\ screen # "Exit"
       /\ QuitIn(events') =>
            /\ screen' = "Exit"
            /\ scores' = scores
            /\ victories' = victories]_vars

\* C12: at the start of every match (from the main menu, and on a replay
\* from the game-over screen) the opponent is as PongAI.__init__ makes it:
\* frame counter 0 and target_y at its initial value.
C12_OpponentPerMatch ==
    [][(screen \in {"Menu", "GameOver"} /\ screen' = "Playing") =>
            ai' = PongAI_init]_vars

\* C13: in every call of PongAI.update the paddle moves exactly when it is
\* more than PADDLE_SPEED away from the target in force, and then by
\* 0.7 * PADDLE_SPEED = 4.9 towards it; otherwise it stays.  Paddle.move
\* followed by taking back 0.3 * PADDLE_SPEED is that single step, also next
\* to the edges of the paddle's range.
ScaledStep == MulDiv(Px(PADDLE_SPEED), MOVE_FACTOR_NUM, MOVE_FACTOR_DEN)

C13_ScaledStep ==
    [][LET y == right_paddle.y
           t == ai'.target_y
       IN  /\ right_paddle'.x = right_paddle.x
           /\ right_paddle'.y =
                IF Abs(y - t) > Px(PADDLE_SPEED)
                THEN IF y < t THEN y + ScaledStep ELSE y - ScaledStep
                ELSE y]_vars

\* Calls of update have brought the paddle from its start position into
\* the last PADDLE_SPEED of its range, below the top edge and above the
\* bottom one, where a full step of Paddle.move would be cut short.
C13_Witness ==
    /\ last \in {"retarget", "steer"}
    /\ \/ 0 < right_paddle.y /\ right_paddle.y < Px(PADDLE_SPEED)
       \/ PaddleMaxY - Px(PADDLE_SPEED) < right_paddle.y /\ right_paddle.y < PaddleMaxY

\* C14: the opponent's counter stays in 0..REACTION_DELAY-1 and goes round
\* 1, 2, 3, 0 with the calls of PongAI.update (one in every pass through
\* update in single-player mode).  Only a call that brings it to 0 sets
\* target_y; every other call leaves target_y as it was and steers the
\* paddle by that value, whatever the ball has done since.
C14_ReactionDelay ==
    /\ [](ai.frame_counter \in 0..(REACTION_DELAY - 1))
    /\ [][last' \in TickLabels /\ game_mode = "single" =>
            /\ ai'.frame_counter = (ai.frame_counter + 1) % REACTION_DELAY
            /\ ai'.frame_counter # 0 =>
                /\ ai'.target_y = ai.target_y
                /\ Sign(right_paddle'.y - right_paddle.y) =
                      IF Abs(right_paddle.y - ai.target_y) > Px(PADDLE_SPEED)
                      THEN Sign(ai.target_y - right_paddle.y)
                      ELSE 0]_vars

\* A point has just been scored and the ball reset towards the opponent in
\* a pass that did not recompute the target: target_y is still the one
\* computed in the rally that is over, and not the one a prediction for
\* the new ball would give.
C14_Witness ==
    /\ game_mode = "single"
    /\ last \in {"score_left", "score_right"}
    /\ AtServe
    /\ ball.speed_x > 0
    /\ ai.frame_counter # 0
    /\ ai.target_y # PongAI_predict_ball_position(ball, right_paddle,
                                                  NoError.error, NoError.doubled)

\* C15: ball.speed_x is never 0, so the division by ball.speed_x in
\* predict_ball_position is always defined.
C15_SpeedXNonZero ==
    ball.speed_x # 0

\* The opponent has just predicted (divided by speed_x) for a ball that
\* comes towards it after a paddle turned it round and changed its speed.
C15_Witness ==
    /\ game_mode = "single"
    /\ last = "tick"
    /\ ai.frame_counter = 0
    /\ rally >= 1
    /\ ball.speed_x > Px(BALL_SPEED)

\* C16: in every step into the pause menu, within it and out of it the
\* match is untouched: the ball, the paddles, the scores, the four win
\* counters, the mode and the opponent's counter and target stay as they
\* are, whatever the events.  So play resumes from the state it was paused
\* in (the pass that was interrupted goes on to update without polling the
\* keys), and going back to the menu changes no win counter.
C16_PauseFrame ==
    [][/\ (screen = "Paused" \/ screen' = "Paused") =>
            /\ UNCHANGED <<match, victories, game_mode>>
            /\ screen' = "Playing" => pc' = "update"
       /\ (screen = "Playing" /\ pc = "update") =>
            /\ left_paddle' = left_paddle
            /\ right_paddle'.y # right_paddle.y => game_mode = "single"]_vars

\* The pause menu is open in the middle of a rally of a single-player
\* match, the opponent has counted and the selection bar has been moved.
C16_Witness ==
    /\ screen = "Paused"
    /\ game_mode = "single"
    /\ ~AtServe
    /\ rally >= 1
    /\ ai.frame_counter # 0
    /\ sel # 0
    /\ events # <<>>

\* C17: during a match the right paddle has one driver.  In single-player
\* mode it moves as PongAI.update steers it in a pass through update (by
\* 4.9 towards the target when more than PADDLE_SPEED away, else not at
\* all) and in no other step, whatever keys are held, so
\* W, S and the arrows do nothing to it.  In two-player mode the opponent is
\* never updated (counter and target stay) and the right paddle moves only
\* in a pass that polled the keys with W or S held.  The left paddle moves
\* only with an arrow key held, in both modes.
C17_OneDriver ==
    [][screen = "Playing" =>
        /\ game_mode = "single" =>
              right_paddle'.y =
                  IF /\ last' \in TickLabels
                     /\ Abs(right_paddle.y - ai'.target_y) > Px(PADDLE_SPEED)
                  THEN IF right_paddle.y < ai'.target_y
                       THEN right_paddle.y + ScaledStep
                       ELSE right_paddle.y - ScaledStep
                  ELSE right_paddle.y
        /\ game_mode = "two_players" =>
              /\ ai' = ai
              /\ right_paddle'.y # right_paddle.y =>
                    pc = "input" /\ keys' \cap {"W", "S"} # {}
        /\ left_paddle'.y # left_paddle.y =>
              pc = "input" /\ keys' \cap {"UP", "DOWN"} # {}]_vars

\* A single-player rally with W and the up arrow held: the left paddle has
\* gone up, the right one down, after the ball.
C17_Witness ==
    /\ game_mode = "single"
    /\ last = "tick"
    /\ {"W", "UP"} \subseteq keys
    /\ left_paddle.y < PaddleStartY
    /\ right_paddle.y > PaddleStartY

\* C18: for every ball that moves towards the right paddle, the reflection
\* loop of predict_ball_position ends, after no more passes than the
\* distance of future_y from the field measured in field heights, plus
\* one, and leaves future_y within 0..WINDOW_HEIGHT.
RECURSIVE FoldPasses(_)
FoldPasses(fy) ==
    IF fy < 0 \/ fy > Px(WINDOW_HEIGHT)
    THEN LET a == IF fy < 0 THEN -fy ELSE fy
             c == IF a > Px(WINDOW_HEIGHT) THEN 2 * Px(WINDOW_HEIGHT) - a ELSE a
         IN  1 + FoldPasses(c)
    ELSE 0

FutureY(b) == b.y + TravelY(b, right_paddle)

C18_FoldEnds ==
    ball.speed_x > 0 =>
        /\ 0 <= Fold(FutureY(ball))
        /\ Fold(FutureY(ball)) <= Px(WINDOW_HEIGHT)
        /\ FoldPasses(FutureY(ball)) <= Abs(FutureY(ball)) \div Px(WINDOW_HEIGHT) + 1

\* The opponent has just predicted for a ball whose straight path ends
\* more than two field heights outside the field: the loop ran three
\* times.
C18_Witness ==
    /\ last = "retarget"
    /\ ball.speed_x > 0
    /\ FoldPasses(FutureY(ball)) >= 3

\* C19: the ball does not stick to the top or bottom wall.  A ball at
\* y <= 0 moves down and one at y >= WINDOW_HEIGHT - BALL_SIZE moves up; y
\* stays strictly between -BALL_SIZE and WINDOW_HEIGHT; and the tick after
\* one that turned the ball at a wall takes it off that wall, so speed_y is
\* not turned at the same wall twice in a row, also when a paddle was hit,
\* and the speed raised, in the tick of the bounce.
AtTop(b) == b.y <= 0
AtBottom(b) == b.y >= Px(WINDOW_HEIGHT - BALL_SIZE)

C19_NoSticking ==
    /\ [](/\ AtTop(ball) => ball.speed_y > 0
          /\ AtBottom(ball) => ball.speed_y < 0
          /\ -Px(BALL_SIZE) < ball.y
          /\ ball.y < Px(WINDOW_HEIGHT))
    /\ [][ball' # ball =>
            /\ AtTop(ball) => ~AtTop(ball')
            /\ AtBottom(ball) => ~AtBottom(ball')]_vars

\* The ball has just turned at a wall at a speed that paddle hits earlier
\* in the rally have raised.
C19_Witness ==
    /\ last = "tick"
    /\ AtTop(ball) \/ AtBottom(ball)
    /\ rally >= 1
    /\ Abs(ball.speed_y) > Px(BALL_SPEED)

\* C20: a paddle hit sends the ball away from the paddle.  In every pass
\* through update the moved ball overlaps the left paddle only when it moves
\* left and the right paddle only when it moves right; after the pass the
\* ball moves right after a hit on the left paddle and left after one on
\* the right paddle; and the next move takes it out of the columns of the
\* paddle it hit, so that paddle cannot be hit again in the next tick.
C20_HitSendsAway ==
    [][last' \in TickLabels =>
        LET b1 == Ball_move(ball)
            hl == Paddle_check_collision(left_paddle', b1)
            hr == Paddle_check_collision(right_paddle', b1)
        IN  /\ hl => /\ b1.speed_x < 0
                     /\ ball'.speed_x > 0
                     /\ ~Alongside(left_paddle', Ball_move(ball'))
            /\ hr => /\ b1.speed_x > 0
                     /\ ball'.speed_x < 0
                     /\ ~Alongside(right_paddle', Ball_move(ball'))]_vars

\* The ball has just been hit by the left paddle: it is at the paddle's
\* face and moves right, faster than it was served.
C20_Witness ==
    /\ last = "hit_left"
    /\ ball.x = left_paddle.x + Px(PADDLE_WIDTH)
    /\ ball.speed_x > Px(BALL_SPEED)

\* C21: the scores are bounded and the winner is unambiguous.  While a
\* match is played or paused both scores are in 0..WIN_SCORE-1; a pass
\* through update raises the sum of the two scores by at most 1; and on the
\* game-over screen exactly one score is WIN_SCORE, the other is below it,
\* and the label passed to GameOver names the side whose score is WIN_SCORE.
C21_ScoresAndWinner ==
    /\ [](/\ screen \in {"Playing", "Paused"} =>
                /\ score_left \in 0..(WIN_SCORE - 1)
                /\ score_right \in 0..(WIN_SCORE - 1)
          /\ screen = "GameOver" =>
                /\ \/ score_left = WIN_SCORE /\ score_right \in 0..(WIN_SCORE - 1)
                   \/ score_right = WIN_SCORE /\ score_left \in 0..(WIN_SCORE - 1)
                /\ Winner = "Left Player" <=> score_left = WIN_SCORE
                /\ Winner = "Right Player" <=> score_right = WIN_SCORE)
    /\ [][last' \in TickLabels =>
            (score_left' + score_right') - (score_left + score_right) \in {0, 1}]_vars

\* The match has just been decided by the point after ten all.
C21_Witness ==
    /\ screen = "GameOver"
    /\ score_left + score_right = 2 * WIN_SCORE - 1
    /\ Winner = "Left Player"

\* C22: the two components of the ball's speed are always of the same
\* size.  That size is one of BALL_SPEED * (1 + SPEED_INCREMENT)^k within
\* BALL_MAX_SPEED, and it does not drop within a rally (only Ball.reset,
\* after a point and at the start of a match, brings it back to
\* BALL_SPEED): increase_speed raises both components or neither.
RECURSIVE SpeedLadder(_)
SpeedLadder(v) ==
    IF v > Px(BALL_MAX_SPEED) THEN {}
    ELSE {v} \cup SpeedLadder(MulDiv(v, SPEED_INCREMENT_DEN + SPEED_INCREMENT_NUM,
                                     SPEED_INCREMENT_DEN))

C22_EqualSpeeds ==
    /\ [](/\ Abs(ball.speed_x) = Abs(ball.speed_y)
          /\ Abs(ball.speed_x) \in SpeedLadder(Px(BALL_SPEED)))
    /\ [][last' \notin {"score_left", "score_right", "start", "replay"} =>
            /\ Abs(ball'.speed_x) >= Abs(ball.speed_x)
            /\ Abs(ball'.speed_y) >= Abs(ball.speed_y)]_vars

\* The first paddle hit at which increase_speed refused the raise: it
\* refused it for both components, which are of the same size below the cap.
C22_Witness ==
    /\ last \in {"hit_left", "hit_right"}
    /\ rally = IncreasesLeft(Px(BALL_SPEED)) + 1
    /\ Abs(ball.speed_x) = Abs(ball.speed_y)
    /\ Abs(ball.speed_x) < Px(BALL_MAX_SPEED)
    /\ ~WithinCap(ball.speed_x)

====
